---- MODULE Spec2Model ----
(***************************************************************************)
(* A model of the data pipeline and the training loop of the repository:   *)
(*   src/eval/tasks/nmt/utils.py  vocabulary, vectorization, split_ds,     *)
(*                                Dataloader.get_batches, make_collator    *)
(*   src/nmt.py                   run(), the per-rank training loop        *)
(*                                                                         *)
(* Python lists are 0-based; the sequences below are 1-based, so a Python  *)
(* position p is position p + 1 here.  A dataset entry is identified by    *)
(* its position in the list that holds it.                                 *)
(***************************************************************************)
EXTENDS Integers, Sequences, FiniteSets, TLC

(* ------------------------------ bounds -------------------------------- *)
MaxShard == 2
MaxCount == 3
MaxBudget == 4
MaxData == 5
MaxWorld == 3
MaxCorpus == 2
MaxLine == 2
MaxIds == 2
MaxCalls == 1
MaxTrain == 3
MaxRanks == 2
MaxUpdates == 2
MaxEvery == 3
MaxPairs == 2
MaxSrc == 1
MaxTgt == 2

(* nmt.py line 117: the evaluation cadence, `updates % 50` *)
EvalEvery == 50

VARIABLES
    (* Dataloader and one pass of get_batches *)
    token_counts,   \* Dataloader.token_counts
    batch_size,     \* the budget handed to get_batches
    gpc,            \* position of the pass: "start", "loop", "shuffle", "yield", "done"
    indices,        \* the bucket-shuffled index sequence
    pos,            \* number of indices the packing loop has consumed
    heap,           \* the list objects created for `batch`: object id -> its content
    batch,          \* the object id `batch` is bound to
    num_tokens,     \* running token sum of `batch`
    batches,        \* `batches`: a list of references (object ids)
    nyield          \* how many batches the generator has yielded

batcherVars == <<token_counts, batch_size, gpc, indices, pos, heap, batch,
                 num_tokens, batches, nyield>>

VARIABLES
    (* split_ds, called once per rank *)
    dataset,        \* the dataset: a list of pairs, each given by <<len(src), len(tgt)>>
    world_size,
    shard,          \* rank -> the list split_ds returned, as positions of `dataset`
    splitDone       \* the ranks whose split_ds call has returned

splitVars == <<dataset, world_size, shard, splitDone>>

VARIABLES
    (* vocabulary and vectorization *)
    corpus,         \* the words of the corpus files, in reading order
    counter,        \* build_vocab's Counter: <<word, count>> in insertion order
    vocabFile,      \* the lines write_vocab wrote, each a tuple of tab-separated fields
    vocab,          \* read_vocab's defaultdict: <<word, id>> in insertion order
    ivocab,         \* the reverse mapping id -> word handed to devectorize
    vpc,            \* "build", "write", "read", "ready"
    calls,          \* the number of vectorize calls made so far
    line,           \* the words of the line last vectorized
    wrap,
    vec,            \* what vectorize returned
    vecStatus,      \* "none", "ok" or "KeyError"
    dvin,           \* the ids last devectorized
    unwrap,
    text,           \* the words of the text devectorize returned
    dvStatus        \* "none", "ok" or "KeyError"

vocabVars == <<corpus, counter, vocabFile, vocab, ivocab, vpc, calls, line, wrap, vec,
               vecStatus, dvin, unwrap, text, dvStatus>>

VARIABLES
    (* make_collator's collate_fn, called on one batch *)
    samples,        \* the batch: a list of pairs <<src, tgt>> of id sequences
    cpc,            \* "call", "returned" or "error"
    input_ids,      \* the four tensors collate_fn returns, as nested sequences
    output_ids,
    input_mask,
    causal_mask

collateVars == <<samples, cpc, input_ids, output_ids, input_mask, causal_mask>>

VARIABLES
    (* run(): one worker per rank *)
    train_set,      \* the training set every rank is handed
    nranks,         \* world_size of the run
    max_updates,
    update_every,
    run_batch_size, \* batch_size of the run
    save_every,
    tpc,            \* rank -> "init", "while", "for", "backward", "all_reduce", "done"
    train_shard,    \* rank -> its shard, as positions of train_set
    remaining,      \* rank -> batches its current get_batches pass has yet to yield
    steps,          \* rank -> micro-batch step count
    updates,        \* rank -> completed optimizer updates
    reduces,        \* rank -> metric all-reduce calls it has issued
    loss,           \* rank -> loss.item() of its current micro-batch, in 1/100
    train_rml,      \* rank -> the smoothed training loss, in 1/100
    rml_tensor,     \* rank -> train_rml_tensor, what it hands to all_reduce
    reports,        \* the lines printed at line 134: who printed, at which counts
    checkpoints     \* the torch.save calls of line 140: who wrote, which identifier

trainParams == <<train_set, nranks, max_updates, update_every, run_batch_size, save_every>>

trainVars == <<trainParams, tpc, train_shard, remaining, steps, updates, reduces,
               loss, train_rml, rml_tensor, reports, checkpoints>>

vars == <<batcherVars, splitVars, vocabVars, collateVars, trainVars>>

(* Each component is exercised by a specification of its own; the other   *)
(* components then rest in these states.                                  *)
BatcherIdle ==
    /\ token_counts = <<>>
    /\ batch_size = 0
    /\ gpc = "idle"
    /\ indices = <<>>
    /\ pos = 0
    /\ heap = <<>>
    /\ batch = 0
    /\ num_tokens = 0
    /\ batches = <<>>
    /\ nyield = 0

SplitIdle ==
    /\ dataset = <<>>
    /\ world_size = 0
    /\ shard = <<>>
    /\ splitDone = {}

VocabIdle ==
    /\ corpus = <<>>
    /\ counter = <<>>
    /\ vocabFile = <<>>
    /\ vocab = <<>>
    /\ ivocab = <<>>
    /\ vpc = "idle"
    /\ calls = 0
    /\ line = <<>>
    /\ wrap = FALSE
    /\ vec = <<>>
    /\ vecStatus = "none"
    /\ dvin = <<>>
    /\ unwrap = FALSE
    /\ text = <<>>
    /\ dvStatus = "none"

CollateIdle ==
    /\ samples = <<>>
    /\ cpc = "idle"
    /\ input_ids = <<>>
    /\ output_ids = <<>>
    /\ input_mask = <<>>
    /\ causal_mask = <<>>

TrainIdle ==
    /\ train_set = <<>>
    /\ nranks = 0
    /\ max_updates = 0
    /\ update_every = 0
    /\ run_batch_size = 0
    /\ save_every = 0
    /\ tpc = <<>>
    /\ train_shard = <<>>
    /\ remaining = <<>>
    /\ steps = <<>>
    /\ updates = <<>>
    /\ reduces = <<>>
    /\ loss = <<>>
    /\ train_rml = <<>>
    /\ rml_tensor = <<>>
    /\ reports = <<>>
    /\ checkpoints = <<>>

(* ------------------------------ helpers ------------------------------- *)
RECURSIVE SeqSum(_)
SeqSum(s) == IF s = <<>> THEN 0 ELSE Head(s) + SeqSum(Tail(s))

SeqsUpTo(S, n) == UNION {[1..k -> S] : k \in 0..n}

Range(s) == {s[i] : i \in DOMAIN s}

RECURSIVE PermSeqs(_)
PermSeqs(S) ==
    IF S = {} THEN {<<>>}
    ELSE UNION {{<<x>> \o p : p \in PermSeqs(S \ {x})} : x \in S}

(* random.sample(vs, len(vs)): every arrangement of the list vs can come   *)
(* out.  B counts, per value, how often it is still to be placed.          *)
RECURSIVE Arrangements(_)
Arrangements(B) ==
    IF \A o \in DOMAIN B : B[o] = 0 THEN {<<>>}
    ELSE UNION {{<<o>> \o s : s \in Arrangements([B EXCEPT ![o] = @ - 1])}
                : o \in {x \in DOMAIN B : B[x] > 0}}

Occurrences(s, v) == Cardinality({i \in DOMAIN s : s[i] = v})

shuffle(vs) == Arrangements([v \in Range(vs) |-> Occurrences(vs, v)])

(* ------------------------ Dataloader.get_batches ---------------------- *)
(* sorted(range(n), key=token_counts) grouped by key, each group shuffled: *)
(* every order of the positions that is ascending in token count.          *)
BucketOrders(tc) ==
    {p \in PermSeqs(DOMAIN tc) :
        \A i \in 1..(Len(p) - 1) : tc[p[i]] <= tc[p[i + 1]]}

OverflowsIgnoringSample(nt, sample_size, budget) == nt > budget

(* line 118: the overflow test of the packing loop *)
Overflows(nt, sample_size, budget) == nt + sample_size > budget

(* lines 117-127: one iteration of the packing loop on index idx.          *)
(* st = [batches, num_tokens, batch, heap]                                 *)
PackStep(st, tc, budget, idx) ==
    LET sample_size == tc[idx]
        over == Overflows(st.num_tokens, sample_size, budget)
        closed == IF over THEN Append(st.batches, st.batch) ELSE st.batches
        hp == IF over THEN Append(st.heap, <<idx>>)
              ELSE [st.heap EXCEPT ![st.batch] = Append(@, idx)]
        b == IF over THEN Len(st.heap) + 1 ELSE st.batch
        nt == IF over THEN sample_size ELSE st.num_tokens + sample_size
    IN  [batches |-> IF hp[b] # <<>> THEN Append(closed, b) ELSE closed,
         num_tokens |-> nt,
         batch |-> b,
         heap |-> hp]

(* line 115: batches, num_tokens, batch = [], 0, [] *)
PackInit == [batches |-> <<>>, num_tokens |-> 0, batch |-> 1, heap |-> <<<<>>>>]

BatcherInit ==
    /\ token_counts \in SeqsUpTo(0..MaxCount, MaxShard)
    /\ batch_size \in 0..MaxBudget
    /\ gpc = "start"
    /\ indices = <<>>
    /\ pos = 0
    /\ heap = PackInit.heap
    /\ batch = PackInit.batch
    /\ num_tokens = PackInit.num_tokens
    /\ batches = PackInit.batches
    /\ nyield = 0

(* lines 106-115 *)
MakeIndices ==
    /\ gpc = "start"
    /\ indices' \in BucketOrders(token_counts)
    /\ gpc' = "loop"
    /\ UNCHANGED <<splitVars, vocabVars, collateVars, trainVars>>
    /\ UNCHANGED <<token_counts, batch_size, pos, heap, batch, num_tokens,
                   batches, nyield>>

(* lines 116-127 *)
PackNext ==
    /\ gpc = "loop"
    /\ pos < Len(indices)
    /\ LET st == PackStep([batches |-> batches, num_tokens |-> num_tokens,
                           batch |-> batch, heap |-> heap],
                          token_counts, batch_size, indices[pos + 1])
       IN  /\ batches' = st.batches
           /\ num_tokens' = st.num_tokens
           /\ batch' = st.batch
           /\ heap' = st.heap
    /\ pos' = pos + 1
    /\ UNCHANGED <<splitVars, vocabVars, collateVars, trainVars>>
    /\ UNCHANGED <<token_counts, batch_size, gpc, indices, nyield>>

(* line 129 *)
ShuffleBatches ==
    /\ gpc = "loop"
    /\ pos = Len(indices)
    /\ batches' \in shuffle(batches)
    /\ gpc' = "yield"
    /\ UNCHANGED <<splitVars, vocabVars, collateVars, trainVars>>
    /\ UNCHANGED <<token_counts, batch_size, indices, pos, heap, batch,
                   num_tokens, nyield>>

(* line 130 *)
YieldBatch ==
    /\ gpc = "yield"
    /\ nyield < Len(batches)
    /\ nyield' = nyield + 1
    /\ UNCHANGED <<splitVars, vocabVars, collateVars, trainVars>>
    /\ UNCHANGED <<token_counts, batch_size, gpc, indices, pos, heap, batch,
                   num_tokens, batches>>

(* line 130: the generator is exhausted *)
EndPass ==
    /\ gpc = "yield"
    /\ nyield = Len(batches)
    /\ gpc' = "done"
    /\ UNCHANGED <<splitVars, vocabVars, collateVars, trainVars>>
    /\ UNCHANGED <<token_counts, batch_size, indices, pos, heap, batch,
                   num_tokens, batches, nyield>>

BatcherNext == MakeIndices \/ PackNext \/ ShuffleBatches \/ YieldBatch \/ EndPass

BatcherSpecInit == BatcherInit /\ SplitIdle /\ VocabIdle /\ CollateIdle /\ TrainIdle

SpecBatcher == BatcherSpecInit /\ [][BatcherNext]_vars

(* The batches the pass has emitted so far, each as the list of entries    *)
(* (positions of the shard) the consumer receives.                          *)
Emitted == [i \in 1..nyield |-> heap[batches[i]]]

BatchTokens(b) == SeqSum([i \in DOMAIN b |-> token_counts[b[i]]])

(* C1: one pass emits every shard entry in exactly one batch of the        *)
(* emitted sequence, and emits no batch more than once.                    *)
C1_EveryEntryInExactlyOneBatch ==
    gpc = "done" =>
        /\ \A e \in DOMAIN token_counts :
              Cardinality({i \in 1..nyield : e \in Range(Emitted[i])}) = 1
        /\ \A i, j \in 1..nyield : i # j => batches[i] # batches[j]

(* C2: every emitted batch is within the budget unless it holds exactly    *)
(* one entry whose own token count exceeds the budget; an oversize entry   *)
(* is emitted, alone in its batch.                                         *)
C2_BatchBudget ==
    /\ \A i \in 1..nyield :
          \/ BatchTokens(Emitted[i]) <= batch_size
          \/ /\ Len(Emitted[i]) = 1
             /\ token_counts[Emitted[i][1]] > batch_size
    /\ gpc = "done" =>
          \A e \in DOMAIN token_counts :
              token_counts[e] > batch_size =>
                  /\ \E i \in 1..nyield : e \in Range(Emitted[i])
                  /\ \A i \in 1..nyield :
                        e \in Range(Emitted[i]) => Emitted[i] = <<e>>

C2_Witness ==
    /\ gpc = "done"
    /\ Len(token_counts) = 2
    /\ \E i \in 1..nyield :
          Len(Emitted[i]) = 1 /\ BatchTokens(Emitted[i]) > batch_size
    /\ \E e \in DOMAIN token_counts : token_counts[e] <= batch_size

(* C3: every emitted batch is non-empty.                                   *)
C3_BatchesNonEmpty == \A i \in 1..nyield : Emitted[i] # <<>>

(* ------------------------------ split_ds ------------------------------ *)
(* Batch a holds no entry of a higher token count than any entry of b. *)
NotAbove(a, b) ==
    \A i \in DOMAIN a : \A j \in DOMAIN b : token_counts[a[i]] <= token_counts[b[j]]

(* Batch b is a run of consecutive entries of the index order. *)
IsRun(b) ==
    \E k \in 0..Len(indices) :
        k + Len(b) <= Len(indices) /\ b = SubSeq(indices, k + 1, k + Len(b))

(* Of any two batches emitted so far, one holds no entry of a higher token *)
(* count than any entry of the other; each is a run of the index order,    *)
(* which is ascending in token count.                                      *)
EmittedInAscendingCuts ==
    /\ \A i, j \in DOMAIN indices :
          i < j => token_counts[indices[i]] <= token_counts[indices[j]]
    /\ \A i \in DOMAIN Emitted : IsRun(Emitted[i])
    /\ \A i, j \in DOMAIN Emitted :
          i # j => NotAbove(Emitted[i], Emitted[j]) \/ NotAbove(Emitted[j], Emitted[i])

(* C20: the index order of a pass is ascending in token count, every       *)
(* emitted batch is a run of consecutive entries of that order, and of any *)
(* two batches the pass emits one holds no entry of a higher token count   *)
(* than any entry of the other; the final shuffle of the batches changes   *)
(* their order only: the same batches, each as often as before, with the   *)
(* same entries.                                                           *)
C20_BatchesCutInAscendingOrder ==
    [][/\ EmittedInAscendingCuts'
       /\ (gpc = "loop" /\ gpc' = "yield") =>
              /\ heap' = heap
              /\ Len(batches') = Len(batches)
              /\ \A b \in DOMAIN heap :
                    Occurrences(batches', b) = Occurrences(batches, b)]_vars

TokenCount(pair) == pair[1] + pair[2]

RECURSIVE InsertBeforeTies(_, _, _)
InsertBeforeTies(sorted, p, key) ==
    IF sorted = <<>> THEN <<p>>
    ELSE IF key[sorted[Len(sorted)]] < key[p] THEN Append(sorted, p)
    ELSE Append(InsertBeforeTies(SubSeq(sorted, 1, Len(sorted) - 1), p, key),
                sorted[Len(sorted)])

(* sorted(dataset, key=...): Python's sort is stable.  The result is given *)
(* as the positions of `dataset` in sorted order.                          *)
RECURSIVE InsertByKey(_, _, _)
InsertByKey(sorted, p, key) ==
    IF sorted = <<>> THEN <<p>>
    ELSE IF key[sorted[Len(sorted)]] <= key[p] THEN Append(sorted, p)
    ELSE Append(InsertByKey(SubSeq(sorted, 1, Len(sorted) - 1), p, key),
                sorted[Len(sorted)])

RECURSIVE SortedUpTo(_, _)
SortedUpTo(key, n) ==
    IF n = 0 THEN <<>> ELSE InsertByKey(SortedUpTo(key, n - 1), n, key)

SortedByLength(ds) ==
    SortedUpTo([i \in DOMAIN ds |-> TokenCount(ds[i])], Len(ds))

ChunkSlice(s, start, step) ==
    LET k == Len(s) \div step
    IN  [j \in 1..k |-> s[start * k + j]]

(* s[start::step] *)
ExtendedSlice(s, start, step) ==
    LET k == IF start >= Len(s) THEN 0 ELSE (Len(s) - start + step - 1) \div step
    IN  [j \in 1..k |-> s[start + 1 + (j - 1) * step]]

split_ds(ds, ws, rank) == ExtendedSlice(SortedByLength(ds), rank, ws)

(* The pairs of a dataset, each given by the lengths of its two sequences. *)
SplitPairs == {<<1, 1>>, <<1, 2>>, <<2, 1>>, <<2, 2>>}

SplitInit ==
    /\ dataset \in SeqsUpTo(SplitPairs, MaxData)
    /\ world_size \in 1..MaxWorld
    /\ shard = [r \in 0..(world_size - 1) |-> <<>>]
    /\ splitDone = {}

(* nmt.py line 52, on rank r *)
SplitDs(r) ==
    /\ r \notin splitDone
    /\ shard' = [shard EXCEPT ![r] = split_ds(dataset, world_size, r)]
    /\ splitDone' = splitDone \cup {r}
    /\ UNCHANGED <<dataset, world_size>>
    /\ UNCHANGED <<batcherVars, vocabVars, collateVars, trainVars>>

SplitNext == \E r \in 0..(world_size - 1) : SplitDs(r)

SplitSpecInit == BatcherIdle /\ SplitInit /\ VocabIdle /\ CollateIdle /\ TrainIdle

SpecSplit == SplitSpecInit /\ [][SplitNext]_vars

(* C4: the shards of the ranks are pairwise disjoint by position and       *)
(* together hold every entry of the dataset exactly once.                  *)
C4_PartitionComplete ==
    /\ \A r \in splitDone :
          /\ \A i, j \in DOMAIN shard[r] : i # j => shard[r][i] # shard[r][j]
          /\ \A q \in splitDone \ {r} : Range(shard[r]) \cap Range(shard[q]) = {}
          /\ Range(shard[r]) \subseteq DOMAIN dataset
    /\ splitDone = 0..(world_size - 1) =>
          UNION {Range(shard[r]) : r \in splitDone} = DOMAIN dataset

C4_Witness ==
    /\ world_size >= 2
    /\ splitDone = 0..(world_size - 1)
    /\ Len(dataset) > world_size
    /\ \E i \in DOMAIN dataset : SortedByLength(dataset)[i] # i

(* Entry e comes before entry f in the dataset sorted ascending by source  *)
(* length + target length, ties kept in their original order.              *)
SortsBefore(e, f) ==
    \/ TokenCount(dataset[e]) < TokenCount(dataset[f])
    \/ TokenCount(dataset[e]) = TokenCount(dataset[f]) /\ e < f

(* the entry at 0-based position p of the sorted dataset *)
SortedEntryAt(p) ==
    CHOOSE f \in DOMAIN dataset :
        Cardinality({e \in DOMAIN dataset : SortsBefore(e, f)}) = p

(* C18: the shard split_ds returns for rank r holds exactly the entries at *)
(* the positions r, r + world_size, r + 2 * world_size, ... of the dataset *)
(* sorted ascending by source length + target length (ties in their        *)
(* original order), in that order.                                         *)
C18_ShardIsStride ==
    \A r \in splitDone :
        LET places == {p \in 0..(Len(dataset) - 1) : p % world_size = r}
        IN  /\ Len(shard[r]) = Cardinality(places)
            /\ \A k \in DOMAIN shard[r] :
                  /\ r + (k - 1) * world_size \in places
                  /\ shard[r][k] = SortedEntryAt(r + (k - 1) * world_size)

(* world_size = 2 on 5 entries that are not in sorted order and have ties: *)
(* rank 0 holds sorted positions 0, 2, 4 and rank 1 holds 1, 3             *)
C18_Witness ==
    /\ world_size = 2
    /\ Len(dataset) = 5
    /\ splitDone = {0, 1}
    /\ shard[0] = <<SortedEntryAt(0), SortedEntryAt(2), SortedEntryAt(4)>>
    /\ shard[1] = <<SortedEntryAt(1), SortedEntryAt(3)>>
    /\ \E i, j \in DOMAIN dataset :
          i < j /\ TokenCount(dataset[i]) > TokenCount(dataset[j])
    /\ \E i, j \in DOMAIN dataset :
          i < j /\ TokenCount(dataset[i]) = TokenCount(dataset[j])
                /\ dataset[i] # dataset[j]

(* -------------------- vocabulary and vectorization -------------------- *)
(* A word is a maximal run of non-whitespace characters (str.split()); a   *)
(* line is modelled by the sequence of its words, and a text joined with   *)
(* ' ' by the sequence of the words joined.  A Python dict keeps its keys  *)
(* in insertion order: it is a sequence of <<key, value>> with distinct    *)
(* keys.                                                                   *)
SOS == "<SOS>"
EOS == "<EOS>"
UNK == "<UNK>"
Words == {"a", SOS, EOS, UNK}

Keys(d) == {d[i][1] : i \in DOMAIN d}

Get(d, k) == d[CHOOSE i \in DOMAIN d : d[i][1] = k][2]

(* d[k] = v: an existing key keeps its place *)
Put(d, k, v) ==
    IF k \in Keys(d)
    THEN [i \in DOMAIN d |-> IF d[i][1] = k THEN <<k, v>> ELSE d[i]]
    ELSE Append(d, <<k, v>>)

(* lines 21-27: Counter(word for file ... for line ... for word ...) *)
RECURSIVE CountWords(_, _)
CountWords(ws, n) ==
    IF n = 0 THEN <<>>
    ELSE LET c == CountWords(ws, n - 1)
             w == ws[n]
         IN  Put(c, w, IF w \in Keys(c) THEN Get(c, w) + 1 ELSE 1)

build_vocab(ws) == CountWords(ws, Len(ws))

(* line 35: sorted(items, key=count, reverse=True); the sort is stable,    *)
(* also under reverse.                                                     *)
RECURSIVE InsertByCountDesc(_, _)
InsertByCountDesc(sorted, item) ==
    IF sorted = <<>> THEN <<item>>
    ELSE IF sorted[Len(sorted)][2] >= item[2] THEN Append(sorted, item)
    ELSE Append(InsertByCountDesc(SubSeq(sorted, 1, Len(sorted) - 1), item),
                sorted[Len(sorted)])

RECURSIVE SortedByCountDesc(_, _)
SortedByCountDesc(items, n) ==
    IF n = 0 THEN <<>>
    ELSE InsertByCountDesc(SortedByCountDesc(items, n - 1), items[n])

(* lines 30-35: the lines of the file, each the tuple of its tab-separated *)
(* fields                                                                  *)
write_vocab(c) ==
    <<<<SOS>>, <<EOS>>, <<UNK>>>> \o SortedByCountDesc(c, Len(c))

(* line 41: {k.rstrip('\n').split('\t')[0]: i for i, k in enumerate(...)}  *)
RECURSIVE ReadLines(_, _)
ReadLines(lines, n) ==
    IF n = 0 THEN <<>>
    ELSE Put(ReadLines(lines, n - 1), lines[n][1], n - 1)

read_vocab(lines) == ReadLines(lines, Len(lines))

LookupPlainDict(d, word) ==
    IF word \in Keys(d)
    THEN [id |-> Get(d, word), vocab |-> d, ok |-> TRUE]
    ELSE [id |-> 0, vocab |-> d, ok |-> FALSE]

(* vocab[word] on defaultdict(lambda: 2, ...), lines 39-41 and 46: a       *)
(* missing key is inserted with the default and the default is returned.   *)
Lookup(d, word) ==
    IF word \in Keys(d)
    THEN [id |-> Get(d, word), vocab |-> d, ok |-> TRUE]
    ELSE [id |-> 2, vocab |-> Append(d, <<word, 2>>), ok |-> TRUE]

(* line 46: [vocab[word] for word in line.split()] *)
RECURSIVE LookupAll(_, _, _)
LookupAll(d, ws, n) ==
    IF n = 0 THEN [ids |-> <<>>, vocab |-> d, ok |-> TRUE]
    ELSE LET r == LookupAll(d, ws, n - 1)
             l == Lookup(r.vocab, ws[n])
         IN  IF ~r.ok THEN r
             ELSE [ids |-> Append(r.ids, l.id), vocab |-> l.vocab, ok |-> l.ok]

(* lines 45-49 *)
vectorize(ws, d, wr) ==
    LET r == LookupAll(d, ws, Len(ws))
        s == Lookup(r.vocab, SOS)
        e == Lookup(s.vocab, EOS)
    IN  IF ~wr \/ ~r.ok THEN r
        ELSE [ids |-> <<s.id>> \o r.ids \o <<e.id>>,
              vocab |-> e.vocab,
              ok |-> s.ok /\ e.ok]

(* takewhile(pred, s) *)
RECURSIVE TakeWhileNot(_, _)
TakeWhileNot(s, stop) ==
    IF s = <<>> \/ Head(s) = stop THEN <<>>
    ELSE <<Head(s)>> \o TakeWhileNot(Tail(s), stop)

(* the ids a lazy lookup would reach under unwrap *)
RECURSIVE ReachedLazily(_, _)
ReachedLazily(tokens, iv) ==
    IF tokens = <<>> THEN <<>>
    ELSE IF Head(tokens) \notin DOMAIN iv THEN <<Head(tokens)>>
    ELSE IF iv[Head(tokens)] = EOS THEN <<>>
    ELSE <<Head(tokens)>> \o ReachedLazily(Tail(tokens), iv)

DevectorizeLazy(tokens, iv, unwr) ==
    LET looked == IF unwr THEN ReachedLazily(Tail(tokens), iv) ELSE tokens
    IN  IF unwr /\ tokens = <<>> THEN [ok |-> TRUE, text |-> <<>>]
        ELSE IF \E i \in DOMAIN looked : looked[i] \notin DOMAIN iv
        THEN [ok |-> FALSE, text |-> <<>>]
        ELSE [ok |-> TRUE,
              text |-> LET subwords == [i \in DOMAIN looked |-> iv[looked[i]]]
                       IN  IF unwr THEN TakeWhileNot(subwords, EOS) ELSE subwords]

(* lines 52-56; ivocab is a dict: an id that is no key raises KeyError     *)
(* while the list of line 53 is built, before anything is unwrapped.       *)
devectorize(tokens, iv, unwr) ==
    IF \E i \in DOMAIN tokens : tokens[i] \notin DOMAIN iv
    THEN [ok |-> FALSE, text |-> <<>>]
    ELSE LET subwords == [i \in DOMAIN tokens |-> iv[tokens[i]]]
         IN  [ok |-> TRUE,
              text |-> IF unwr
                       THEN TakeWhileNot(IF subwords = <<>> THEN <<>>
                                         ELSE Tail(subwords), EOS)
                       ELSE subwords]

(* The reverse mapping {v: k for k, v in vocab.items()}: for an id held by *)
(* several keys the last key wins.                                         *)
InverseOf(d) ==
    [id \in {d[i][2] : i \in DOMAIN d} |->
        d[CHOOSE i \in DOMAIN d :
            /\ d[i][2] = id
            /\ \A j \in DOMAIN d : d[j][2] = id => j <= i][1]]

VocabInit ==
    /\ corpus \in SeqsUpTo(Words, MaxCorpus)
    /\ counter = <<>>
    /\ vocabFile = <<>>
    /\ vocab = <<>>
    /\ ivocab = <<>>
    /\ vpc = "build"
    /\ calls = 0
    /\ line = <<>>
    /\ wrap = FALSE
    /\ vec = <<>>
    /\ vecStatus = "none"
    /\ dvin = <<>>
    /\ unwrap = FALSE
    /\ text = <<>>
    /\ dvStatus = "none"

BuildVocab ==
    /\ vpc = "build"
    /\ counter' = build_vocab(corpus)
    /\ vpc' = "write"
    /\ UNCHANGED <<corpus, vocabFile, vocab, ivocab, calls, line, wrap, vec, vecStatus,
                   dvin, unwrap, text, dvStatus>>
    /\ UNCHANGED <<batcherVars, splitVars, collateVars, trainVars>>

WriteVocab ==
    /\ vpc = "write"
    /\ vocabFile' = write_vocab(counter)
    /\ vpc' = "read"
    /\ UNCHANGED <<corpus, counter, vocab, ivocab, calls, line, wrap, vec, vecStatus,
                   dvin, unwrap, text, dvStatus>>
    /\ UNCHANGED <<batcherVars, splitVars, collateVars, trainVars>>

(* read_vocab, and the reverse mapping derived from its result *)
ReadVocab ==
    /\ vpc = "read"
    /\ vocab' = read_vocab(vocabFile)
    /\ ivocab' = InverseOf(vocab')
    /\ vpc' = "ready"
    /\ UNCHANGED <<corpus, counter, vocabFile, calls, line, wrap, vec, vecStatus,
                   dvin, unwrap, text, dvStatus>>
    /\ UNCHANGED <<batcherVars, splitVars, collateVars, trainVars>>

(* a call vectorize(l, vocab, w).  devectorize changes neither vocab nor   *)
(* ivocab, so the calls are explored with the devectorize call last.       *)
Vectorize(l, w) ==
    /\ vpc = "ready"
    /\ calls < MaxCalls
    /\ dvStatus = "none"
    /\ calls' = calls + 1
    /\ LET r == vectorize(l, vocab, w)
       IN  /\ vocab' = r.vocab
           /\ vec' = IF r.ok THEN r.ids ELSE <<>>
           /\ vecStatus' = IF r.ok THEN "ok" ELSE "KeyError"
    /\ line' = l
    /\ wrap' = w
    /\ dvin' = <<>>
    /\ unwrap' = FALSE
    /\ text' = <<>>
    /\ dvStatus' = "none"
    /\ UNCHANGED <<corpus, counter, vocabFile, ivocab, vpc>>
    /\ UNCHANGED <<batcherVars, splitVars, collateVars, trainVars>>

(* the reverse mapping is derived anew from the vocabulary in use *)
DeriveIvocab ==
    /\ vpc = "ready"
    /\ dvStatus = "none"
    /\ ivocab' = InverseOf(vocab)
    /\ ivocab' # ivocab
    /\ UNCHANGED <<corpus, counter, vocabFile, vocab, vpc, calls, line, wrap, vec,
                   vecStatus, dvin, unwrap, text, dvStatus>>
    /\ UNCHANGED <<batcherVars, splitVars, collateVars, trainVars>>

(* a call devectorize(vec, ivocab, u) on what vectorize returned last *)
DevectorizeVec(u) ==
    /\ vpc = "ready"
    /\ vecStatus = "ok"
    /\ dvStatus = "none"
    /\ LET r == devectorize(vec, ivocab, u)
       IN  /\ text' = r.text
           /\ dvStatus' = IF r.ok THEN "ok" ELSE "KeyError"
    /\ dvin' = vec
    /\ unwrap' = u
    /\ UNCHANGED <<corpus, counter, vocabFile, vocab, ivocab, vpc, calls, line, wrap,
                   vec, vecStatus>>
    /\ UNCHANGED <<batcherVars, splitVars, collateVars, trainVars>>

(* a call devectorize(ids, ivocab, u) on any ids *)
DevectorizeIds(ids, u) ==
    /\ vpc = "ready"
    /\ vecStatus = "none"
    /\ dvStatus = "none"
    /\ LET r == devectorize(ids, ivocab, u)
       IN  /\ text' = r.text
           /\ dvStatus' = IF r.ok THEN "ok" ELSE "KeyError"
    /\ dvin' = ids
    /\ unwrap' = u
    /\ UNCHANGED <<corpus, counter, vocabFile, vocab, ivocab, vpc, calls, line, wrap,
                   vec, vecStatus>>
    /\ UNCHANGED <<batcherVars, splitVars, collateVars, trainVars>>

VocabNext ==
    \/ BuildVocab
    \/ WriteVocab
    \/ ReadVocab
    \/ \E l \in SeqsUpTo(Words, MaxLine), w \in BOOLEAN : Vectorize(l, w)
    \/ DeriveIvocab
    \/ \E u \in BOOLEAN : DevectorizeVec(u)
    \/ \E ids \in SeqsUpTo(0..Len(vocabFile), MaxIds), u \in BOOLEAN :
          DevectorizeIds(ids, u)

VocabSpecInit == BatcherIdle /\ SplitIdle /\ VocabInit /\ CollateIdle /\ TrainIdle

SpecVocab == VocabSpecInit /\ [][VocabNext]_vars

(* The vocabulary as read_vocab returned it, before any use. *)
Loaded == read_vocab(vocabFile)

Reserved == {SOS, EOS, UNK}

Frequency(w) == Cardinality({i \in DOMAIN corpus : corpus[i] = w})

(* C7: after build_vocab, write_vocab and read_vocab the ids 0, 1, 2 are   *)
(* exactly the start, end and unknown markers, whatever the corpus holds,  *)
(* and every other token has its id in order of non-increasing frequency.  *)
C7_ReservedIdsAndFrequencyOrder ==
    (vpc = "ready" /\ calls = 0) =>
        /\ Get(vocab, SOS) = 0
        /\ Get(vocab, EOS) = 1
        /\ Get(vocab, UNK) = 2
        /\ \A w \in Keys(vocab) \ Reserved : Get(vocab, w) >= 3
        /\ \A v, w \in Keys(vocab) \ Reserved :
              Get(vocab, v) < Get(vocab, w) => Frequency(v) >= Frequency(w)

(* C8: with the reverse mapping the inverse of the loaded vocabulary,      *)
(* devectorize(vectorize(line, wrap), unwrap) is the line's words in       *)
(* order, each out-of-vocabulary word replaced by the unknown marker and   *)
(* every other word unchanged, nothing truncated or dropped.               *)
C8_RoundTrip ==
    (/\ vecStatus = "ok" /\ wrap
     /\ dvStatus # "none" /\ unwrap
     /\ ivocab = InverseOf(Loaded)) =>
        /\ dvStatus = "ok"
        /\ text = [i \in DOMAIN line |->
                      IF line[i] \in Keys(Loaded) THEN line[i] ELSE UNK]

(* C9: vectorize never fails, and every word of the line that is absent    *)
(* from the loaded vocabulary gets the reserved unknown id 2.              *)
C9_AbsentWordYieldsUnknownId ==
    vecStatus # "none" =>
        /\ vecStatus = "ok"
        /\ Len(vec) = Len(line) + (IF wrap THEN 2 ELSE 0)
        /\ \A i \in DOMAIN line :
              line[i] \notin Keys(Loaded) => vec[i + (IF wrap THEN 1 ELSE 0)] = 2

C9_Witness ==
    /\ vecStatus = "ok"
    /\ wrap
    /\ Len(line) = 2
    /\ line[1] \in Keys(Loaded)
    /\ line[2] \notin Keys(Loaded)
    /\ vec[3] = 2

(* C10: devectorize fails, returning no text, whenever its input holds an  *)
(* id with no entry in the reverse mapping, with or without unwrap and     *)
(* wherever the id sits.                                                   *)
C10_MissingIdFails ==
    (dvStatus # "none" /\ \E i \in DOMAIN dvin : dvin[i] \notin DOMAIN ivocab) =>
        dvStatus = "KeyError" /\ text = <<>>

C10_Witness ==
    /\ dvStatus = "KeyError"
    /\ unwrap
    /\ Len(dvin) = 2
    /\ dvin[1] \notin DOMAIN ivocab
    /\ dvin[2] \in DOMAIN ivocab

(* C19: the loaded vocabulary maps its tokens one-to-one to ids, and use   *)
(* leaves it as read_vocab returned it: after any vectorize calls it holds *)
(* the same tokens with the same ids, and a reverse mapping derived from   *)
(* it maps id 2 to the unknown marker.                                     *)
C19_VocabUnchangedByUse ==
    vpc = "ready" =>
        /\ \A v, w \in Keys(vocab) : v # w => Get(vocab, v) # Get(vocab, w)
        /\ vocab = Loaded
        /\ 2 \in DOMAIN InverseOf(vocab)
        /\ InverseOf(vocab)[2] = UNK

(* ------------------ make_collator, utils.py 133-144 ------------------- *)
(* lines 136 and 137: padding_value=-1 *)
PaddingValue == -1

(* The ids the sequences of a batch are made of. *)
SrcIds == {0, 3}
TgtIds == {1}
SamplePairs == SeqsUpTo(SrcIds, MaxSrc) \X SeqsUpTo(TgtIds, MaxTgt)

(* the length of the longest sequence of a non-empty list *)
MaxLength(seqs) ==
    CHOOSE n \in {Len(seqs[i]) : i \in DOMAIN seqs} :
        \A i \in DOMAIN seqs : Len(seqs[i]) <= n

PadLeft(s, n, value) ==
    [j \in 1..n |-> IF j > n - Len(s) THEN s[j - (n - Len(s))] ELSE value]

(* one row of pad_sequence: the sequence, then the padding value *)
PadRight(s, n, value) ==
    [j \in 1..n |-> IF j <= Len(s) THEN s[j] ELSE value]

(* torch's pad_sequence(sequences, batch_first=True, padding_value) *)
pad_sequence(seqs, value) ==
    [i \in DOMAIN seqs |-> PadRight(seqs[i], MaxLength(seqs), value)]

(* tensor.ne(value), elementwise *)
ne(t, value) == [i \in DOMAIN t |-> [j \in DOMAIN t[i] |-> t[i][j] # value]]

(* torch.ones(n, m, dtype=torch.bool) *)
ones(n, m) == [i \in 1..n |-> [j \in 1..m |-> TRUE]]

(* torch.tril(t, diagonal): the entries above the diagonal are cleared *)
tril(t, diagonal) ==
    [i \in DOMAIN t |-> [j \in DOMAIN t[i] |-> t[i][j] /\ j - i <= diagonal]]

(* lines 134-143; t[None, :] puts one leading dimension of size 1 around t *)
collate_fn(smpls) ==
    LET ins == pad_sequence([i \in DOMAIN smpls |-> smpls[i][1]], PaddingValue)
        outs == pad_sequence([i \in DOMAIN smpls |-> smpls[i][2]], PaddingValue)
        width == Len(outs[1])
    IN  [input_ids |-> ins,
         output_ids |-> outs,
         input_mask |-> ne(ins, PaddingValue),
         causal_mask |-> <<tril(ones(width, width), 0)>>]

CollateInit ==
    /\ samples \in SeqsUpTo(SamplePairs, MaxPairs)
    /\ cpc = "call"
    /\ input_ids = <<>>
    /\ output_ids = <<>>
    /\ input_mask = <<>>
    /\ causal_mask = <<>>

(* One call of collate_fn.  pad_sequence rejects an empty list. *)
CollateFn ==
    /\ cpc = "call"
    /\ IF samples = <<>>
       THEN /\ cpc' = "error"
            /\ UNCHANGED <<input_ids, output_ids, input_mask, causal_mask>>
       ELSE LET out == collate_fn(samples)
            IN  /\ cpc' = "returned"
                /\ input_ids' = out.input_ids
                /\ output_ids' = out.output_ids
                /\ input_mask' = out.input_mask
                /\ causal_mask' = out.causal_mask
    /\ UNCHANGED samples
    /\ UNCHANGED <<batcherVars, splitVars, vocabVars, trainVars>>

CollateNext == CollateFn

CollateSpecInit == BatcherIdle /\ SplitIdle /\ VocabIdle /\ CollateInit /\ TrainIdle

SpecCollate == CollateSpecInit /\ [][CollateNext]_vars

(* rows is seqs, each right-padded with the sentinel to the longest of seqs *)
RightPadded(rows, seqs) ==
    /\ Len(rows) = Len(seqs)
    /\ \A i \in DOMAIN seqs :
          /\ \A k \in DOMAIN seqs : Len(rows[i]) >= Len(seqs[k])
          /\ \E k \in DOMAIN seqs : Len(rows[i]) = Len(seqs[k])
          /\ \A j \in 1..Len(rows[i]) :
                rows[i][j] = IF j <= Len(seqs[i]) THEN seqs[i][j] ELSE -1

(* C11: for a non-empty batch of N pairs, collate_fn returns source and    *)
(* target ids of N rows, each row the original sequence right-padded with  *)
(* -1 to the longest source (target) sequence of the batch; the source     *)
(* mask is true exactly where the source ids are not -1; the causal mask,  *)
(* shared by the whole batch, is square of side the longest target         *)
(* sequence and true at [i][j] exactly when j <= i.                        *)
C11_CollationShape ==
    (cpc = "returned") =>
        /\ samples # <<>>
        /\ RightPadded(input_ids, [i \in DOMAIN samples |-> samples[i][1]])
        /\ RightPadded(output_ids, [i \in DOMAIN samples |-> samples[i][2]])
        /\ Len(input_mask) = Len(input_ids)
        /\ \A i \in DOMAIN input_ids :
              /\ Len(input_mask[i]) = Len(input_ids[i])
              /\ \A j \in 1..Len(input_ids[i]) :
                    input_mask[i][j] <=> (input_ids[i][j] # -1)
        /\ Len(causal_mask) = 1
        /\ Len(causal_mask[1]) = Len(output_ids[1])
        /\ \A i \in 1..Len(causal_mask[1]) :
              /\ Len(causal_mask[1][i]) = Len(output_ids[1])
              /\ \A j \in 1..Len(output_ids[1]) :
                    causal_mask[1][i][j] <=> (j <= i)

(* a returned batch of two pairs in which a source row and a target row    *)
(* were padded                                                             *)
C11_Witness ==
    /\ cpc = "returned"
    /\ Len(samples) = 2
    /\ \E i \in DOMAIN samples : Len(samples[i][1]) < Len(input_ids[i])
    /\ \E i \in DOMAIN samples :
          /\ Len(samples[i][2]) >= 1
          /\ Len(samples[i][2]) < Len(output_ids[i])
    /\ \E i \in DOMAIN input_mask : \E j \in DOMAIN input_mask[i] : ~input_mask[i][j]

(* --------------------------- run(), nmt.py ---------------------------- *)
(* The call of line 99 passes flip=, which get_batches of utils.py does    *)
(* not take; the loop is modelled as written, with the call yielding the   *)
(* batches of get_batches(batch_size).  The model, the optimizer and the   *)
(* collective primitives are external: a collective call blocks its        *)
(* caller until every rank has issued the matching call.                   *)
Ranks == 0..(nranks - 1)

(* The pairs are wrapped sequences (at least <SOS> and <EOS> on each       *)
(* side), and no pair exceeds the budget.                                  *)
TrainPairs == {<<2, 2>>, <<3, 3>>}
TrainBudgets == {6, 8}

(* The number of batches one pass of get_batches yields: the length of     *)
(* `batches` after the packing loop.  It is the same for every order the   *)
(* buckets are shuffled into.                                              *)
RECURSIVE PackAll(_, _, _, _)
PackAll(tc, bsize, order, n) ==
    IF n = 0 THEN PackInit
    ELSE PackStep(PackAll(tc, bsize, order, n - 1), tc, bsize, order[n])

BatchesPerPass(tc, bsize) ==
    Len(PackAll(tc, bsize, SortedUpTo(tc, Len(tc)), Len(tc)).batches)

(* line 103, on the shard of rank r *)
ShardTokenCounts(r) ==
    [i \in DOMAIN train_shard[r] |-> TokenCount(train_set[train_shard[r][i]])]

(* The losses the model reports, in 1/100; --save_every as given on the    *)
(* command line (500 is its default, line 152).                            *)
Losses == {100, 200}
SaveEveries == {1, 500}

TrainInit ==
    /\ train_set \in SeqsUpTo(TrainPairs, MaxTrain)
    /\ nranks \in 1..MaxRanks
    /\ max_updates \in 1..MaxUpdates
    /\ update_every \in 1..MaxEvery
    /\ run_batch_size \in TrainBudgets
    /\ save_every \in SaveEveries
    /\ tpc = [r \in Ranks |-> "init"]
    /\ train_shard = [r \in Ranks |-> <<>>]
    /\ remaining = [r \in Ranks |-> 0]
    /\ steps = [r \in Ranks |-> 0]
    /\ updates = [r \in Ranks |-> 0]
    /\ reduces = [r \in Ranks |-> 0]
    /\ loss = [r \in Ranks |-> 0]
    /\ train_rml = [r \in Ranks |-> 0]
    /\ rml_tensor = [r \in Ranks |-> 0]
    /\ reports = <<>>
    /\ checkpoints = <<>>

(* lines 50-95: join the group, take the shard, build the loader and the   *)
(* model, steps, updates, train_rml = 0, 0, 0                              *)
Setup(r) ==
    /\ tpc[r] = "init"
    /\ train_shard' = [train_shard EXCEPT ![r] = split_ds(train_set, nranks, r)]
    /\ tpc' = [tpc EXCEPT ![r] = "while"]
    /\ steps' = [steps EXCEPT ![r] = 0]
    /\ updates' = [updates EXCEPT ![r] = 0]
    /\ train_rml' = [train_rml EXCEPT ![r] = 0]
    /\ UNCHANGED <<trainParams, remaining, reduces, loss, rml_tensor, reports,
                   checkpoints>>
    /\ UNCHANGED <<batcherVars, splitVars, vocabVars, collateVars>>

(* line 96: while updates < max_updates; lines 97-99 start a pass, line    *)
(* 142 leaves the group                                                    *)
WhileCheck(r) ==
    /\ tpc[r] = "while"
    /\ IF updates[r] < max_updates
       THEN /\ remaining' = [remaining EXCEPT
                                ![r] = BatchesPerPass(ShardTokenCounts(r), run_batch_size)]
            /\ tpc' = [tpc EXCEPT ![r] = "for"]
       ELSE /\ tpc' = [tpc EXCEPT ![r] = "done"]
            /\ UNCHANGED remaining
    /\ UNCHANGED <<trainParams, train_shard, steps, updates, reduces, loss, train_rml,
                   rml_tensor, reports, checkpoints>>
    /\ UNCHANGED <<batcherVars, splitVars, vocabVars, collateVars>>

(* lines 98-107: the next batch of the pass, steps += 1, the forward pass  *)
(* (the model returns some loss) and the call of loss.backward(); a pass   *)
(* that is exhausted ends the for                                          *)
NextBatch(r) ==
    /\ tpc[r] = "for"
    /\ IF remaining[r] > 0
       THEN /\ remaining' = [remaining EXCEPT ![r] = @ - 1]
            /\ steps' = [steps EXCEPT ![r] = @ + 1]
            /\ \E l \in Losses : loss' = [loss EXCEPT ![r] = l]
            /\ tpc' = [tpc EXCEPT ![r] = "backward"]
       ELSE /\ tpc' = [tpc EXCEPT ![r] = "while"]
            /\ UNCHANGED <<remaining, steps, loss>>
    /\ UNCHANGED <<trainParams, train_shard, updates, reduces, train_rml, rml_tensor,
                   reports, checkpoints>>
    /\ UNCHANGED <<batcherVars, splitVars, vocabVars, collateVars>>

(* line 109, on hundredths, rounded down; line 95 binds train_rml to 0, so *)
(* the `train_rml is None` branch is never taken                           *)
RunningMean(rml, l) == (98 * rml + 2 * l) \div 100

UpdateDueOnEveryStep(stp, every) == stp >= 1

(* line 111: the test that guards the optimizer step *)
UpdateDue(stp, every) == stp % every = 0

(* line 117: the test that guards the metric reduction *)
ReducesMetrics(r, upd) == r = 0 /\ upd % EvalEvery = 0

(* line 107 returns once every rank has issued the backward pass of this   *)
(* step (the gradient all-reduce of the wrapped model); lines 109-118      *)
Backward(r) ==
    /\ tpc[r] = "backward"
    /\ \A q \in Ranks : steps[q] >= steps[r]
    /\ LET rml == RunningMean(train_rml[r], loss[r])
           upd == IF UpdateDue(steps[r], update_every)
                  THEN updates[r] + 1 ELSE updates[r]
       IN  /\ train_rml' = [train_rml EXCEPT ![r] = rml]
           /\ updates' = [updates EXCEPT ![r] = upd]
           /\ IF ReducesMetrics(r, upd)
              THEN /\ rml_tensor' = [rml_tensor EXCEPT ![r] = rml]
                   /\ tpc' = [tpc EXCEPT ![r] = "all_reduce"]
                   /\ reduces' = [reduces EXCEPT ![r] = @ + 1]
              ELSE /\ tpc' = [tpc EXCEPT ![r] = "for"]
                   /\ UNCHANGED <<reduces, rml_tensor>>
    /\ UNCHANGED <<trainParams, train_shard, remaining, steps, loss, reports,
                   checkpoints>>
    /\ UNCHANGED <<batcherVars, splitVars, vocabVars, collateVars>>

(* the sum all_reduce leaves in the tensor of every caller *)
RECURSIVE SumTensors(_, _)
SumTensors(t, n) == IF n = 0 THEN 0 ELSE t[n - 1] + SumTensors(t, n - 1)

(* line 139: the test that guards the checkpoint *)
SavesCheckpoint(r, upd, every) == r = 0 /\ upd % every = 0

(* line 119 returns once every rank has issued the matching all_reduce;    *)
(* line 120 divides the sum by world_size; lines 122-134 run the dev pass  *)
(* and print the report; lines 139-140 write the checkpoint                *)
AllReduce(r) ==
    /\ tpc[r] = "all_reduce"
    /\ \A q \in Ranks : reduces[q] >= reduces[r]
    /\ train_rml' = [train_rml EXCEPT ![r] = SumTensors(rml_tensor, nranks) \div nranks]
    /\ reports' = Append(reports, [rank |-> r, updates |-> updates[r], steps |-> steps[r]])
    /\ IF SavesCheckpoint(r, updates[r], save_every)
       THEN checkpoints' = Append(checkpoints,
                                  [rank |-> r, id |-> updates[r] \div save_every,
                                   updates |-> updates[r]])
       ELSE UNCHANGED checkpoints
    /\ tpc' = [tpc EXCEPT ![r] = "for"]
    /\ UNCHANGED <<trainParams, train_shard, remaining, steps, updates, reduces, loss,
                   rml_tensor>>
    /\ UNCHANGED <<batcherVars, splitVars, vocabVars, collateVars>>

TrainNext ==
    \/ \E r \in Ranks : Setup(r)
    \/ \E r \in Ranks : WhileCheck(r)
    \/ \E r \in Ranks : NextBatch(r)
    \/ \E r \in Ranks : Backward(r)
    \/ \E r \in Ranks : AllReduce(r)

TrainSpecInit == BatcherIdle /\ SplitIdle /\ VocabIdle /\ CollateIdle /\ TrainInit

SpecTrain == TrainSpecInit /\ [][TrainNext]_vars

(* Rank q is past the line-117 test of rank r's current micro-batch. *)
PastMetricTest(q, r) ==
    \/ steps[q] > steps[r]
    \/ steps[q] = steps[r] /\ tpc[q] \in {"for", "while", "done"}

(* C5: a metric all-reduce issued by one rank is issued by every other     *)
(* rank: no rank waits in all_reduce while another rank has gone on        *)
(* without calling it.                                                     *)
C5_MetricAllReduceMatched ==
    \A r, q \in Ranks :
        (tpc[r] = "all_reduce" /\ q # r /\ PastMetricTest(q, r)) =>
            reduces[q] >= reduces[r]

(* C6: every worker reaches the end of run() (destroy_process_group): the  *)
(* run is never stuck with a worker that has not terminated.               *)
C6_NoWorkerStuck ==
    (\A r \in Ranks : tpc[r] = "done") \/ ENABLED TrainNext

(* C12: rank 0 runs the metric reduction and the dev evaluation once for   *)
(* each optimizer update whose count is a positive multiple of the         *)
(* evaluation cadence: no report is made before the first optimizer        *)
(* update, none at a count that is not a multiple of the cadence, and no   *)
(* two reports at the same update count.                                   *)
C12_EvalOncePerCadence ==
    /\ \A i \in DOMAIN reports :
          /\ reports[i].rank = 0
          /\ reports[i].updates >= 1
          /\ reports[i].updates % EvalEvery = 0
    /\ \A i, j \in DOMAIN reports :
          i < j => reports[i].updates # reports[j].updates

(* C13: the completed optimizer-update count of a worker never exceeds     *)
(* max_updates, and a worker that has left the loop has made exactly       *)
(* max_updates updates.                                                    *)
C13_UpdateBudget ==
    \A r \in Ranks :
        /\ updates[r] <= max_updates
        /\ tpc[r] = "done" => updates[r] = max_updates

(* C14: the ranks make their backward passes in lockstep: no rank waits in *)
(* a backward pass that another rank, having left the loop with fewer      *)
(* steps, will never make, and the ranks that have left the loop have made *)
(* the same number of backward passes.                                     *)
C14_BackwardLockstep ==
    \A r, q \in Ranks :
        /\ tpc[r] = "backward" => ~(tpc[q] = "done" /\ steps[q] < steps[r])
        /\ (tpc[r] = "done" /\ tpc[q] = "done") => steps[r] = steps[q]

(* C15: checkpoints are written by rank 0 only, none before save_every     *)
(* optimizer updates have completed, and the identifiers of successive     *)
(* writes strictly increase.                                               *)
C15_CheckpointsIncrease ==
    /\ \A i \in DOMAIN checkpoints :
          /\ checkpoints[i].rank = 0
          /\ checkpoints[i].updates >= save_every
    /\ \A i, j \in DOMAIN checkpoints :
          i < j => checkpoints[i].id < checkpoints[j].id

(* C16: the smoothed loss after the first micro-batch of a run is that     *)
(* micro-batch's raw loss, and after every later micro-batch it is 0.98    *)
(* times the previous smoothed loss plus 0.02 times the new raw loss.      *)
C16_SmoothedLoss ==
    [][\A r \in Ranks :
          (tpc[r] = "backward" /\ tpc'[r] # "backward") =>
              train_rml'[r] = IF steps[r] = 1 THEN loss[r]
                              ELSE (98 * train_rml[r] + 2 * loss[r]) \div 100]_vars

(* C17: once a micro-batch is fully processed, the completed               *)
(* optimizer-update count of a worker is floor(steps / update_every): the  *)
(* optimizer steps on every update_every-th micro-batch and on no other,   *)
(* and the step count is carried from one batcher pass to the next.        *)
C17_UpdatesFollowSteps ==
    \A r \in Ranks :
        tpc[r] \in {"while", "for", "all_reduce", "done"} =>
            updates[r] = steps[r] \div update_every

(* a worker in a later pass than its first, with micro-batches both on and *)
(* off the update_every grid behind it                                     *)
C17_Witness ==
    \E r \in Ranks :
        /\ tpc[r] = "for"
        /\ update_every = 2
        /\ steps[r] = 3
        /\ updates[r] = 1
        /\ BatchesPerPass(ShardTokenCounts(r), run_batch_size) = 1

====
